---- MODULE Spec2Model ----
(***************************************************************************)
(* The Windows (WebView2) backend of wry: src/src/webview/win/mod.rs.      *)
(* InnerWebView::new starts the asynchronous environment/controller        *)
(* callback chain; eval and resize act on the controller through the       *)
(* Rc<OnceCell<Controller>> cell that the controller callback fills last.  *)
(* Strings that the code rewrites (URLs) are sequences of characters.      *)
(***************************************************************************)
EXTENDS Naturals, Sequences, FiniteSets, TLC

VARIABLES
  scripts,               \* new(): scripts: Vec<String>
  url,                   \* new(): url: Option<Url>
  custom_protocol,       \* new(): Option<(String, F)>, the scheme name
  rpc_handler,           \* new(): Option<RpcHandler>, TRUE when Some
  file_drop_handler,     \* new(): Option<FileDropHandler>, TRUE when Some
  pc,                    \* position of the initialization chain
  failedAt,              \* the step whose `?` returned the error
  newResult,             \* what new() returned to its caller
  controller,            \* InnerWebView.controller: Rc<OnceCell<Controller>>
  file_drop_controller,  \* InnerWebView.file_drop_controller
  registered,            \* scripts added with add_script_to_execute_on_document_created
  handlers,              \* engine callbacks and filters registered so far
  navTarget,             \* the string given to w.navigate
  bounds,                \* the rect last given to controller.put_bounds
  executed,              \* scripts handed to execute_script, in order
  loads,                 \* documents created so far
  log,                   \* execution log of the last document created
  evalCount,             \* eval calls made so far
  dropped,               \* eval calls that found the cell empty
  evalResult,            \* result of the last eval call
  resizeCount,           \* resize calls made so far
  resizeResult,          \* result of the last resize call
  msgs,                  \* web messages delivered to the message callback
  handlerLog,            \* requests the RPC handler was invoked with
  errors,                \* errors printed by eprintln!
  msgResult,             \* result of the last message callback
  lastReq,               \* the last run of the web_resource_requested callback
  scriptCalls,           \* scripts add_script_to_execute_on_document_created was called with
  droppedResizes,        \* resize calls that found the cell empty
  boundsBy,              \* the resize call that set bounds last, 0 for the initialization
  owner,                 \* the caller still holds the InnerWebView that new returned
  fileDrops              \* invocations of the file-drop handler

config == <<scripts, url, custom_protocol, rpc_handler, file_drop_handler>>
life   == <<pc, failedAt, newResult, controller, file_drop_controller>>
engine == <<registered, scriptCalls, handlers, navTarget, bounds>>
page   == <<loads, log>>
evals  == <<evalCount, dropped, evalResult>>
sizes  == <<resizeCount, resizeResult, droppedResizes, boundsBy>>
host   == <<owner, fileDrops>>
bridge == <<msgs, handlerLog, errors, msgResult>>
vars   == <<config, life, engine, page, evals, sizes, bridge, executed, lastReq, host>>

None == "None"

\* Option<T> of a value that is not a string: Nil, or Some(v) holding v.
Nil == <<>>
Some(v) == <<v>>
Unwrap(o) == o[1]

\* ---------------------------------------------------------------- bounds
MaxScripts  == 2   \* caller-supplied scripts
MaxPieces   == 2   \* pieces of a URL's path
MaxEvals    == 2   \* eval calls
MaxResizes  == 1   \* resize calls
MaxLoads    == 2   \* documents created (initial load and reloads)
MaxMsgs     == 2   \* posted web messages
MaxRequests == 1   \* intercepted resource requests
MaxFileDrops == 1  \* files dropped on the window

\* ---------------------------------------------------------------- strings
RECURSIVE Replace(_, _, _)
\* str::replace: every non-overlapping match of `from`, left to right.
Replace(s, from, to) ==
  IF Len(s) < Len(from) THEN s
  ELSE IF SubSeq(s, 1, Len(from)) = from
       THEN to \o Replace(SubSeq(s, Len(from) + 1, Len(s)), from, to)
       ELSE <<Head(s)>> \o Replace(Tail(s), from, to)

StartsWith(s, p) == Len(s) >= Len(p) /\ SubSeq(s, 1, Len(p)) = p

RECURSIVE Concat(_)
Concat(ss) == IF ss = <<>> THEN <<>> ELSE Head(ss) \o Concat(Tail(ss))

SeqsUpTo(S, n) == UNION { [1..k -> S] : k \in 0..n }

Foo == <<"f", "o", "o">>
Bar == <<"b", "a", "r">>

\* format!("{}://", name)
SchemePrefix(name) == name \o <<":", "/", "/">>

\* format!("file://custom-protocol-{}", name)
SyntheticPrefix(name) ==
  <<"f","i","l","e",":","/","/","c","u","s","t","o","m","-",
    "p","r","o","t","o","c","o","l","-">> \o name

\* Url::as_str of a URL with an authority: scheme://rest
as_str(u) == SchemePrefix(u.scheme) \o u.rest

\* ---------------------------------------------------------------- inputs
ScriptNames == {"s1", "s2"}
Scripts == SeqsUpTo(ScriptNames, MaxScripts)

\* line 74: the bridge bootstrap script
Bootstrap == "window.external={invoke:s=>window.chrome.webview.postMessage(s)}"

\* Pieces a URL path is built from: a plain segment, the custom scheme's own
\* prefix, and the synthetic prefix the workaround uses.
Pieces == { <<"x">>, SchemePrefix(Foo), SyntheticPrefix(Foo) }
Rests == { <<"a", "/">> \o Concat(ps) : ps \in SeqsUpTo(Pieces, MaxPieces) }
Urls == [scheme : {Foo, Bar}, rest : Rests]
PlainUrls == [scheme : {Foo, Bar}, rest : {<<"a", "/">>}]

Rects == {"r1", "r2"}
ZeroRect == "r0"

\* ---------------------------------------------------------------- lifecycle
ConfiguringPcs ==
  {"Settings", "Bounds", "Scripts", "MessageHandler", "CustomProtocol", "Permission"}

\* The lifecycle state (spec 4.5) of a position of the callback chain.
Lifecycle(p) ==
  IF p \in ConfiguringPcs THEN "Configuring"
  ELSE IF p = "Depositing" THEN "Navigating"
  ELSE p

\* The UI thread is between callbacks: InnerWebView holds Rc cells (not Send),
\* so eval, resize and every engine callback run on the thread that runs the
\* initialization callbacks, never in the middle of one.
UiIdle == pc \in {"EnvironmentBuilding", "ControllerBuilding", "Ready", "Failed"}

\* OnceCell::set: stores only into an empty cell (the result is discarded).
OnceCellSet(cell, v) == IF cell = None THEN v ELSE cell

\* A failing step as it would be if the construction were started again.
FailRetries(at) == /\ pc' = "Uninitialized"
                   /\ failedAt' = at

\* A `?` that returned Err: the callback ends and nothing retries it.
Fail(at) == /\ pc' = "Failed"
            /\ failedAt' = at

Start ==
  /\ pc = "Uninitialized"
  /\ failedAt = None
  /\ newResult = None
  /\ controller = None
  /\ file_drop_controller = None
  /\ registered = <<>>
  /\ handlers = {}
  /\ navTarget = Nil
  /\ bounds = None
  /\ executed = <<>>
  /\ loads = 0
  /\ log = <<>>
  /\ evalCount = 0
  /\ dropped = {}
  /\ evalResult = None
  /\ resizeCount = 0
  /\ resizeResult = None
  /\ msgs = <<>>
  /\ handlerLog = <<>>
  /\ errors = 0
  /\ msgResult = None
  /\ lastReq = Nil
  /\ scriptCalls = <<>>
  /\ droppedResizes = {}
  /\ boundsBy = 0
  /\ owner = TRUE
  /\ fileDrops = 0

Init ==
  /\ scripts \in Scripts
  /\ url \in {Some(u) : u \in PlainUrls} \cup {Nil}
  /\ custom_protocol \in {Nil, Some(Foo)}
  /\ rpc_handler = FALSE
  /\ file_drop_handler \in BOOLEAN
  /\ Start

\* ---------------------------------------------------------------- new
\* Lines 41-50 and 172-178: the cells are created, the environment build is
\* started, and new returns: Err when starting the build failed, else the
\* handle, with both cells still empty.
new ==
  /\ pc = "Uninitialized"
  /\ \E ok \in BOOLEAN :
       IF ok
       THEN /\ pc' = "EnvironmentBuilding"
            /\ newResult' = "Ok"
            /\ failedAt' = failedAt
       ELSE /\ Fail("build")
            /\ newResult' = "Err"
  /\ UNCHANGED <<config, controller, file_drop_controller, engine, page, evals,
                 sizes, bridge, executed, lastReq, host>>

\* The environment callback as it would be if new waited for the chain and
\* returned its error.
EnvironmentCompletedReported ==
  /\ pc = "EnvironmentBuilding"
  /\ \E ok \in BOOLEAN :
       IF ok
       THEN pc' = "ControllerBuilding" /\ failedAt' = failedAt /\ newResult' = newResult
       ELSE Fail("environment") /\ newResult' = "Err"
  /\ UNCHANGED <<config, controller, file_drop_controller, engine,
                 page, evals, sizes, bridge, executed, lastReq, host>>

\* Lines 50-53 and 171: the environment callback; `env?`, then
\* create_controller is started.
EnvironmentCompleted ==
  /\ pc = "EnvironmentBuilding"
  /\ \E ok \in BOOLEAN :
       IF ok
       THEN pc' = "ControllerBuilding" /\ failedAt' = failedAt
       ELSE Fail("environment")
  /\ UNCHANGED <<config, newResult, controller, file_drop_controller, engine,
                 page, evals, sizes, bridge, executed, lastReq, host>>

\* Lines 53-55: the controller callback starts; `controller?`, get_webview()?.
ControllerCompleted ==
  /\ pc = "ControllerBuilding"
  /\ \E ok \in BOOLEAN :
       IF ok
       THEN pc' = "Settings" /\ failedAt' = failedAt
       ELSE Fail("controller")
  /\ UNCHANGED <<config, newResult, controller, file_drop_controller, engine,
                 page, evals, sizes, bridge, executed, lastReq, host>>

\* Lines 57-63: get_settings()? and the put_* defaults.
PutSettings ==
  /\ pc = "Settings"
  /\ \E ok \in BOOLEAN :
       IF ok
       THEN pc' = "Bounds" /\ failedAt' = failedAt
       ELSE Fail("settings")
  /\ UNCHANGED <<config, newResult, controller, file_drop_controller, engine,
                 page, evals, sizes, bridge, executed, lastReq, host>>

\* Lines 66-70: GetClientRect into a zeroed rect, controller.put_bounds(rect)?.
PutBounds ==
  /\ pc = "Bounds"
  /\ \E ok \in BOOLEAN, rect \in Rects \cup {ZeroRect} :
       IF ok
       THEN pc' = "Scripts" /\ failedAt' = failedAt /\ bounds' = rect
       ELSE Fail("bounds") /\ bounds' = bounds
  /\ UNCHANGED <<config, newResult, controller, file_drop_controller, registered, scriptCalls,
                 handlers, navTarget, page, evals, sizes, bridge, executed, lastReq, host>>

\* The registration order with the bootstrap script added after the loop.
InjectionOrderBootstrapLast(ss) == ss \o <<Bootstrap>>

\* Lines 73-79: the order in which the scripts are registered.
InjectionOrder(ss) == <<Bootstrap>> \o ss

\* The script loop as it would be if a failed registration were reported and
\* the loop went on to the next script.
AddScriptContinues ==
  /\ pc = "Scripts"
  /\ IF Len(scriptCalls) < Len(InjectionOrder(scripts))
     THEN \E ok \in BOOLEAN :
            /\ scriptCalls' =
                 Append(scriptCalls, InjectionOrder(scripts)[Len(scriptCalls) + 1])
            /\ registered' =
                 IF ok
                 THEN Append(registered, InjectionOrder(scripts)[Len(scriptCalls) + 1])
                 ELSE registered
            /\ failedAt' = IF ok THEN failedAt ELSE "script"
            /\ pc' = pc
     ELSE /\ pc' = "MessageHandler"
          /\ UNCHANGED <<failedAt, registered, scriptCalls>>
  /\ UNCHANGED <<config, newResult, controller, file_drop_controller, handlers,
                 navTarget, bounds, page, evals, sizes, bridge, executed, lastReq, host>>

\* Lines 73-79: one add_script_to_execute_on_document_created(..)?; the `?`
\* returns from the callback on the first failure. After the last script the
\* callback goes on to the message handler.
AddScript ==
  /\ pc = "Scripts"
  /\ IF Len(scriptCalls) < Len(InjectionOrder(scripts))
     THEN \E ok \in BOOLEAN :
            /\ scriptCalls' =
                 Append(scriptCalls, InjectionOrder(scripts)[Len(scriptCalls) + 1])
            /\ IF ok
               THEN /\ registered' =
                         Append(registered, InjectionOrder(scripts)[Len(scriptCalls) + 1])
                    /\ UNCHANGED <<pc, failedAt>>
               ELSE Fail("script") /\ registered' = registered
     ELSE /\ pc' = "MessageHandler"
          /\ UNCHANGED <<failedAt, registered, scriptCalls>>
  /\ UNCHANGED <<config, newResult, controller, file_drop_controller, handlers,
                 navTarget, bounds, page, evals, sizes, bridge, executed, lastReq, host>>

\* The message handler as it would be if the callback went on without
\* registering it (leaving the registration for later).
AddMessageHandlerDeferred ==
  /\ pc = "MessageHandler"
  /\ pc' = "CustomProtocol"
  /\ UNCHANGED <<config, failedAt, newResult, controller, file_drop_controller, engine,
                 page, evals, sizes, bridge, executed, lastReq, host>>

\* Lines 82-97: add_web_message_received(..)?.
AddMessageHandler ==
  /\ pc = "MessageHandler"
  /\ \E ok \in BOOLEAN :
       IF ok
       THEN /\ pc' = "CustomProtocol" /\ failedAt' = failedAt
            /\ handlers' = handlers \cup {"web_message_received"}
       ELSE Fail("message_handler") /\ handlers' = handlers
  /\ UNCHANGED <<config, newResult, controller, file_drop_controller, registered, scriptCalls,
                 navTarget, bounds, page, evals, sizes, bridge, executed, lastReq, host>>

\* Lines 99-135: with a custom protocol, the filter on
\* file://custom-protocol-<name>* and then the web_resource_requested callback.
AddCustomProtocol ==
  /\ pc = "CustomProtocol"
  /\ IF custom_protocol = Nil
     THEN pc' = "Permission" /\ UNCHANGED <<failedAt, handlers>>
     ELSE \E okFilter \in BOOLEAN, okHandler \in BOOLEAN :
            IF ~okFilter
            THEN Fail("filter") /\ handlers' = handlers
            ELSE IF ~okHandler
                 THEN /\ Fail("resource_handler")
                      /\ handlers' = handlers \cup {"filter"}
                 ELSE /\ pc' = "Permission" /\ failedAt' = failedAt
                      /\ handlers' = handlers \cup {"filter", "web_resource_requested"}
  /\ UNCHANGED <<config, newResult, controller, file_drop_controller, registered, scriptCalls,
                 navTarget, bounds, page, evals, sizes, bridge, executed, lastReq, host>>

\* Lines 138-144: add_permission_requested(..)?.
AddPermission ==
  /\ pc = "Permission"
  /\ \E ok \in BOOLEAN :
       IF ok
       THEN /\ pc' = "Navigating" /\ failedAt' = failedAt
            /\ handlers' = handlers \cup {"permission_requested"}
       ELSE Fail("permission") /\ handlers' = handlers
  /\ UNCHANGED <<config, newResult, controller, file_drop_controller, registered, scriptCalls,
                 navTarget, bounds, page, evals, sizes, bridge, executed, lastReq, host>>

\* The navigation target as it would be if the rewrite did not compare the
\* URL's scheme with the registered name.
NavigationTargetAnyScheme(u, cp) ==
  IF cp # Nil
  THEN Replace(as_str(u), SchemePrefix(Unwrap(cp)), SyntheticPrefix(Unwrap(cp)))
  ELSE as_str(u)

\* Lines 148-158: the string handed to navigate.
NavigationTarget(u, cp) ==
  IF cp # Nil /\ Unwrap(cp) = u.scheme
  THEN Replace(as_str(u), SchemePrefix(Unwrap(cp)), SyntheticPrefix(Unwrap(cp)))
  ELSE as_str(u)

\* Navigate as it would be if a navigate call that returned Err had started
\* the navigation all the same.
NavigateStartsOnError ==
  /\ pc = "Navigating"
  /\ IF url = Nil
     THEN pc' = "Depositing" /\ UNCHANGED <<failedAt, navTarget>>
     ELSE \E ok \in BOOLEAN :
            /\ navTarget' = Some(NavigationTarget(Unwrap(url), custom_protocol))
            /\ IF ok
               THEN pc' = "Depositing" /\ failedAt' = failedAt
               ELSE Fail("navigate")
  /\ UNCHANGED <<config, newResult, controller, file_drop_controller, registered, scriptCalls,
                 handlers, bounds, page, evals, sizes, bridge, executed, lastReq, host>>

\* Navigate as it would be if the controller were deposited before navigate.
NavigateAfterDeposit ==
  /\ pc = "Navigating"
  /\ controller' = OnceCellSet(controller, "c1")
  /\ IF url = Nil
     THEN pc' = "Depositing" /\ UNCHANGED <<failedAt, navTarget>>
     ELSE \E ok \in BOOLEAN :
            IF ok
            THEN /\ pc' = "Depositing" /\ failedAt' = failedAt
                 /\ navTarget' = Some(NavigationTarget(Unwrap(url), custom_protocol))
            ELSE Fail("navigate") /\ navTarget' = navTarget
  /\ UNCHANGED <<config, newResult, file_drop_controller, registered, scriptCalls,
                 handlers, bounds, page, evals, sizes, bridge, executed, lastReq, host>>

\* Lines 147-160: w.navigate(&url_string)? when a URL was given.
Navigate ==
  /\ pc = "Navigating"
  /\ IF url = Nil
     THEN pc' = "Depositing" /\ UNCHANGED <<failedAt, navTarget>>
     ELSE \E ok \in BOOLEAN :
            IF ok
            THEN /\ pc' = "Depositing" /\ failedAt' = failedAt
                 /\ navTarget' = Some(NavigationTarget(Unwrap(url), custom_protocol))
            ELSE Fail("navigate") /\ navTarget' = navTarget
  /\ UNCHANGED <<config, newResult, controller, file_drop_controller, registered, scriptCalls,
                 handlers, bounds, page, evals, sizes, bridge, executed, lastReq, host>>

\* Lines 162-170: the controller goes into the cell, the file-drop controller
\* (when a handler was given) into its own, and the callback returns Ok.
\* When the InnerWebView was dropped during the build, the closure's clones
\* (lines 44, 47) are the last references to the cells: they are released
\* when the callback returns, and the cells go with what was just stored.
Deposit ==
  /\ pc = "Depositing"
  /\ IF owner
     THEN /\ controller' = OnceCellSet(controller, "c1")
          /\ file_drop_controller' =
               IF file_drop_handler THEN OnceCellSet(file_drop_controller, "fd1")
               ELSE file_drop_controller
          /\ pc' = "Ready"
     ELSE /\ controller' = None
          /\ file_drop_controller' = None
          /\ pc' = "Dropped"
  /\ UNCHANGED <<config, failedAt, newResult, engine, page, evals, sizes, bridge,
                 executed, lastReq, host>>

InitChain ==
  \/ new
  \/ EnvironmentCompleted
  \/ ControllerCompleted
  \/ PutSettings
  \/ PutBounds
  \/ AddScript
  \/ AddMessageHandler
  \/ AddCustomProtocol
  \/ AddPermission
  \/ Navigate
  \/ Deposit
\* ---------------------------------------------------------------- host calls
\* The script of the n-th eval call (each call's script is told apart).
EvalScript(n) == [kind |-> "eval", n |-> n]

\* eval as it would be if a script given before readiness were run anyway.
evalRunsWhenEmpty ==
  /\ newResult = "Ok"
  /\ UiIdle
  /\ evalCount < MaxEvals
  /\ evalCount' = evalCount + 1
  /\ dropped' = IF controller = None THEN dropped \cup {evalCount + 1} ELSE dropped
  /\ executed' = Append(executed, EvalScript(evalCount + 1))
  /\ evalResult' = "Ok"
  /\ UNCHANGED <<config, life, engine, page, sizes, bridge, lastReq, host>>

\* eval as it would be if the call waited for the cell to be populated.
evalWaitsForReady ==
  /\ newResult = "Ok"
  /\ UiIdle
  /\ evalCount < MaxEvals
  /\ controller # None
  /\ evalCount' = evalCount + 1
  /\ dropped' = dropped
  /\ \E okWebview \in BOOLEAN, okExecute \in BOOLEAN :
       /\ executed' = IF okWebview
                      THEN Append(executed, EvalScript(evalCount + 1))
                      ELSE executed
       /\ evalResult' = IF okWebview /\ okExecute THEN "Ok" ELSE "Err"
  /\ UNCHANGED <<config, life, engine, page, sizes, bridge, lastReq, host>>

\* Lines 181-187: InnerWebView::eval. With the cell empty nothing is called
\* and Ok is returned; otherwise get_webview()? and execute_script(js)?.
eval ==
  /\ newResult = "Ok"
  /\ UiIdle
  /\ evalCount < MaxEvals
  /\ evalCount' = evalCount + 1
  /\ IF controller = None
     THEN /\ dropped' = dropped \cup {evalCount + 1}
          /\ evalResult' = "Ok"
          /\ executed' = executed
     ELSE /\ dropped' = dropped
          /\ \E okWebview \in BOOLEAN, okExecute \in BOOLEAN :
               /\ executed' = IF okWebview
                              THEN Append(executed, EvalScript(evalCount + 1))
                              ELSE executed
               /\ evalResult' = IF okWebview /\ okExecute THEN "Ok" ELSE "Err"
  /\ UNCHANGED <<config, life, engine, page, sizes, bridge, lastReq, host>>

\* resize as it would be if a failed put_bounds emptied the cell.
resizeClearsOnError ==
  /\ newResult = "Ok"
  /\ UiIdle
  /\ resizeCount < MaxResizes
  /\ resizeCount' = resizeCount + 1
  /\ \E rect \in Rects, ok \in BOOLEAN :
       IF controller # None /\ ok
       THEN /\ bounds' = rect /\ resizeResult' = "Ok" /\ controller' = controller
            /\ boundsBy' = resizeCount + 1 /\ droppedResizes' = droppedResizes
       ELSE /\ bounds' = bounds
            /\ resizeResult' = IF controller = None THEN "Ok" ELSE "Err"
            /\ controller' = None
            /\ boundsBy' = boundsBy
            /\ droppedResizes' = IF controller = None
                                 THEN droppedResizes \cup {resizeCount + 1}
                                 ELSE droppedResizes
  /\ UNCHANGED <<config, pc, failedAt, newResult, file_drop_controller, registered, scriptCalls,
                 handlers, navTarget, page, evals, bridge, executed, lastReq, host>>

\* resize as it would be if the bounds were applied without looking at the cell.
resizeAppliesWhenEmpty ==
  /\ newResult = "Ok"
  /\ UiIdle
  /\ resizeCount < MaxResizes
  /\ resizeCount' = resizeCount + 1
  /\ droppedResizes' = IF controller = None
                       THEN droppedResizes \cup {resizeCount + 1}
                       ELSE droppedResizes
  /\ \E rect \in Rects :
       bounds' = rect /\ resizeResult' = "Ok" /\ boundsBy' = resizeCount + 1
  /\ UNCHANGED <<config, life, registered, scriptCalls, handlers, navTarget, page, evals,
                 bridge, executed, lastReq, host>>

\* Lines 191-204: InnerWebView::resize. GetClientRect, then put_bounds(rect)?
\* only when the cell holds the controller.
resize ==
  /\ newResult = "Ok"
  /\ UiIdle
  /\ resizeCount < MaxResizes
  /\ resizeCount' = resizeCount + 1
  /\ \E rect \in Rects :
       IF controller = None
       THEN /\ bounds' = bounds /\ resizeResult' = "Ok"
            /\ droppedResizes' = droppedResizes \cup {resizeCount + 1}
            /\ boundsBy' = boundsBy
       ELSE /\ droppedResizes' = droppedResizes
            /\ \E ok \in BOOLEAN :
                 IF ok
                 THEN bounds' = rect /\ resizeResult' = "Ok" /\ boundsBy' = resizeCount + 1
                 ELSE bounds' = bounds /\ resizeResult' = "Err" /\ boundsBy' = boundsBy
  /\ UNCHANGED <<config, life, registered, scriptCalls, handlers, navTarget, page, evals,
                 bridge, executed, lastReq, host>>

\* ---------------------------------------------------------------- engine
PageScript == "page"

\* The engine creates a document for the navigated target (the first load or
\* a reload): the scripts registered with
\* add_script_to_execute_on_document_created run in the order they were
\* added, then the page's own scripts.
DocumentCreated ==
  /\ navTarget # Nil
  /\ pc # "Dropped"
  /\ loads < MaxLoads
  /\ loads' = loads + 1
  /\ log' = registered \o <<PageScript>>
  /\ UNCHANGED <<config, life, engine, evals, sizes, bridge, executed, lastReq, host>>

\* ---------------------------------------------------------------- message bridge
Ids == {"1", "2"}
Methods == {"ping"}

\* The wire protocol: {id, method, params} and {method, params}, as tokens.
RequestJs(k, m) == <<"{", "id", k, "method", m, "params", "}">>
NotificationJs(m) == <<"{", "method", m, "params", "}">>
MalformedJs == { <<"{", "id", "1", "method">>, <<"{", "params", "}">> }
WellFormedJs ==
  { RequestJs(k, m) : k \in Ids, m \in Methods } \cup { NotificationJs(m) : m \in Methods }

\* A posted value that is not a string: try_get_web_message_as_string fails.
NonString == <<"[object]">>
Posted == WellFormedJs \cup MalformedJs \cup {NonString}

\* What the host's RPC handler answers: a value or an error.
HandlerOutcomes == { [ok |-> TRUE, value |-> "pong"], [ok |-> FALSE, value |-> "boom"] }

\* Parsing a posted string as an RpcMessage: Nil when it is neither shape.
ParseRpc(js) ==
  IF /\ Len(js) = 7
     /\ js[1] = "{" /\ js[2] = "id" /\ js[4] = "method" /\ js[6] = "params" /\ js[7] = "}"
  THEN Some([id |-> Some(js[3]), method |-> js[5]])
  ELSE IF /\ Len(js) = 5
          /\ js[1] = "{" /\ js[2] = "method" /\ js[4] = "params" /\ js[5] = "}"
       THEN Some([id |-> Nil, method |-> js[3]])
       ELSE Nil

\* The script that resolves (result) or rejects (error) continuation k.
ReplyScript(k, outcome) ==
  [kind |-> "rpc", id |-> k,
   result |-> IF outcome.ok THEN Some(outcome.value) ELSE Nil,
   error |-> IF outcome.ok THEN Nil ELSE Some(outcome.value)]

\* super::rpc_proxy(js, handler): Err on a parse failure; else the handler is
\* invoked once, and a reply script is produced when the message has an id.
rpc_proxy(js, outcome) ==
  LET req == ParseRpc(js) IN
  IF req = Nil
  THEN [tag |-> "Err", called |-> FALSE, script |-> Nil]
  ELSE [tag |-> "Ok", called |-> TRUE,
        script |-> IF Unwrap(req).id = Nil THEN Nil
                   ELSE Some(ReplyScript(Unwrap(Unwrap(req).id), outcome))]

\* A reply script with nothing in it.
EmptyReply == [kind |-> "rpc", id |-> "", result |-> Nil, error |-> Nil]

\* The callback as it would be if it executed the reply script twice.
HandleProxyResultTwice(r) ==
  [scripts |-> IF r.tag = "Ok" /\ r.script # Nil
               THEN <<Unwrap(r.script), Unwrap(r.script)>> ELSE <<>>,
   printed |-> IF r.tag = "Err" THEN 1 ELSE 0]

\* The callback as it would be if it executed a script for every Ok result,
\* an empty one when rpc_proxy produced none.
HandleProxyResultAlways(r) ==
  [scripts |-> IF r.tag = "Ok"
               THEN <<IF r.script # Nil THEN Unwrap(r.script) ELSE EmptyReply>>
               ELSE <<>>,
   printed |-> IF r.tag = "Err" THEN 1 ELSE 0]

\* The callback as it would be if it swallowed rpc_proxy's error.
HandleProxyResultSilent(r) ==
  [scripts |-> IF r.tag = "Ok" /\ r.script # Nil THEN <<Unwrap(r.script)>> ELSE <<>>,
   printed |-> 0]

\* Lines 86-93: what the callback does with rpc_proxy's result: the scripts
\* it hands to execute_script and the errors it prints.
HandleProxyResult(r) ==
  [scripts |-> IF r.tag = "Ok" /\ r.script # Nil THEN <<Unwrap(r.script)>> ELSE <<>>,
   printed |-> IF r.tag = "Err" THEN 1 ELSE 0]

\* Script of the embedded page is running: a document was created, or a
\* script was handed to the engine.
ScriptRunning == loads > 0 \/ executed # <<>>

\* The callback as it would be if a posted string were parsed, and a parse
\* failure reported, also when no RPC handler was given.
WebMessageReceivedAlwaysParses ==
  /\ "web_message_received" \in handlers
  /\ UiIdle
  /\ ScriptRunning
  /\ Len(msgs) < MaxMsgs
  /\ \E js \in Posted, outcome \in HandlerOutcomes, okExecute \in BOOLEAN :
       /\ msgs' = Append(msgs, js)
       /\ IF js = NonString
          THEN /\ msgResult' = "Err"
               /\ UNCHANGED <<handlerLog, errors, executed>>
          ELSE IF rpc_handler
               THEN LET r == rpc_proxy(js, outcome)
                        h == HandleProxyResult(r)
                    IN /\ handlerLog' =
                            IF r.called
                            THEN Append(handlerLog, [js |-> js, ok |-> outcome.ok])
                            ELSE handlerLog
                       /\ executed' = executed \o h.scripts
                       /\ errors' = errors + h.printed
                       /\ msgResult' = IF h.scripts # <<>> /\ ~okExecute
                                       THEN "Err" ELSE "Ok"
               ELSE /\ msgResult' = "Ok"
                    /\ errors' = IF ParseRpc(js) = Nil THEN errors + 1 ELSE errors
                    /\ UNCHANGED <<handlerLog, executed>>
  /\ UNCHANGED <<config, life, engine, page, evals, sizes, lastReq, host>>

\* Lines 82-97: the web_message_received callback.
WebMessageReceived ==
  /\ "web_message_received" \in handlers
  /\ UiIdle
  /\ ScriptRunning
  /\ Len(msgs) < MaxMsgs
  /\ \E js \in Posted, outcome \in HandlerOutcomes, okExecute \in BOOLEAN :
       /\ msgs' = Append(msgs, js)
       /\ IF js = NonString
          THEN /\ msgResult' = "Err"
               /\ UNCHANGED <<handlerLog, errors, executed>>
          ELSE IF rpc_handler
               THEN LET r == rpc_proxy(js, outcome)
                        h == HandleProxyResult(r)
                    IN /\ handlerLog' =
                            IF r.called
                            THEN Append(handlerLog, [js |-> js, ok |-> outcome.ok])
                            ELSE handlerLog
                       /\ executed' = executed \o h.scripts
                       /\ errors' = errors + h.printed
                       /\ msgResult' = IF h.scripts # <<>> /\ ~okExecute
                                       THEN "Err" ELSE "Ok"
               ELSE /\ msgResult' = "Ok"
                    /\ UNCHANGED <<handlerLog, errors, executed>>
  /\ UNCHANGED <<config, life, engine, page, evals, sizes, lastReq, host>>

\* ---------------------------------------------------------------- interception
\* What the caller's resolver returns for a path: bytes, or an error.
ResolverResults ==
  { [ok |-> TRUE, content |-> "<html>"], [ok |-> TRUE, content |-> "PNG"],
    [ok |-> FALSE, content |-> ""] }

\* MimeType::parse(&content, &uri): the type sniffed from the bytes.
MimeTypeParse(content, uri) ==
  IF content = "<html>" THEN "text/html"
  ELSE IF content = "PNG" THEN "image/png"
  ELSE "application/octet-stream"

\* Lines 104-107: the filter file://custom-protocol-<name>*.
MatchesFilter(uri, name) == StartsWith(uri, SyntheticPrefix(name))

\* Lines 111-114: the path handed to the resolver.
ResolverPath(uri, name) == Replace(uri, SyntheticPrefix(name), SchemePrefix(name))

\* Requests the page makes besides the navigated document itself.
SubResources == { SyntheticPrefix(Foo) \o <<"a", "/", "i">> }

\* The outcome as it would be if a failed resolution still attached a response.
RespondAttachesOnError(uri, res, okCreate, okPut) ==
  IF res.ok /\ ~(okCreate /\ okPut)
  THEN [result |-> "PlatformError", response |-> Nil]
  ELSE [result |-> IF res.ok THEN "Ok" ELSE "IoError",
        response |-> Some([status |-> 200,
                           content_type |-> MimeTypeParse(res.content, uri)])]

\* Lines 116-133: the resolver's result turned into the callback's outcome.
Respond(uri, res, okCreate, okPut) ==
  IF res.ok
  THEN IF okCreate /\ okPut
       THEN [result |-> "Ok",
             response |-> Some([status |-> 200,
                                content_type |-> MimeTypeParse(res.content, uri)])]
       ELSE [result |-> "PlatformError", response |-> Nil]
  ELSE [result |-> "IoError", response |-> Nil]

\* Runs of the web_resource_requested callback so far.
RequestCount == IF lastReq = Nil THEN 0 ELSE Unwrap(lastReq).n

\* Lines 108-134: the web_resource_requested callback, for a request that
\* matches the filter.
WebResourceRequested ==
  /\ "web_resource_requested" \in handlers
  /\ UiIdle
  /\ navTarget # Nil
  /\ RequestCount < MaxRequests
  /\ \E uri \in {Unwrap(navTarget)} \cup SubResources, res \in ResolverResults,
        okCreate \in BOOLEAN, okPut \in BOOLEAN :
       /\ MatchesFilter(uri, Unwrap(custom_protocol))
       /\ LET out == Respond(uri, res, okCreate, okPut) IN
          lastReq' = Some([n |-> RequestCount + 1,
                           uri |-> uri,
                           path |-> ResolverPath(uri, Unwrap(custom_protocol)),
                           resolved |-> res.ok,
                           content |-> res.content,
                           result |-> out.result,
                           response |-> out.response])
  /\ UNCHANGED <<config, life, engine, page, evals, sizes, bridge, executed, host>>

\* ---------------------------------------------------------------- drop
\* The file-drop handler given to FileDropController::listen (line 166) is
\* invoked for a file dropped on the window, while the controller stored in
\* the cell exists.
FileDropped ==
  /\ file_drop_controller # None
  /\ UiIdle
  /\ fileDrops < MaxFileDrops
  /\ fileDrops' = fileDrops + 1
  /\ UNCHANGED <<config, life, engine, page, evals, sizes, bridge, executed, lastReq,
                 owner>>

\* drop as it would be if a registered handler kept the cells alive.
dropLeaks ==
  /\ newResult = "Ok"
  /\ owner
  /\ UiIdle
  /\ owner' = FALSE
  /\ UNCHANGED <<config, life, engine, page, evals, sizes, bridge, executed, lastReq,
                 fileDrops>>

\* Lines 18-25: the caller drops the InnerWebView, and with it its two Rc
\* references. During the build the closure still holds the clones and the
\* chain goes on. After the callback ended the references were the last ones:
\* the cells are freed, the Controller and the FileDropController in them are
\* dropped, which closes the webview and revokes the file-drop listener.
drop ==
  /\ newResult = "Ok"
  /\ owner
  /\ UiIdle
  /\ owner' = FALSE
  /\ IF pc = "Ready"
     THEN /\ pc' = "Dropped"
          /\ controller' = None
          /\ file_drop_controller' = None
     ELSE UNCHANGED <<pc, controller, file_drop_controller>>
  /\ UNCHANGED <<config, failedAt, newResult, engine, page, evals, sizes, bridge,
                 executed, lastReq, fileDrops>>

\* ---------------------------------------------------------------- specifications
\* Construction, the host calls and document creation.
Next ==
  \/ InitChain
  \/ eval
  \/ resize
  \/ DocumentCreated

Spec == Init /\ [][Next]_vars

\* The same program under fair scheduling of the native callbacks: the engine
\* invokes a completion callback it owes, and a callback that runs goes on to
\* its next statement.
SpecFair == Init /\ [][Next]_vars /\ WF_vars(InitChain)

\* The message bridge: one page, with and without an RPC handler.
InitBridge ==
  /\ scripts = <<>>
  /\ url \in {Some(u) : u \in {v \in PlainUrls : v.scheme = Bar}}
  /\ custom_protocol = Nil
  /\ rpc_handler \in BOOLEAN
  /\ file_drop_handler = FALSE
  /\ Start

NextBridge ==
  \/ InitChain
  \/ DocumentCreated
  \/ WebMessageReceived

SpecBridge == InitBridge /\ [][NextBridge]_vars

\* The custom protocol: every URL of the input set, with and without a
\* registered scheme.
InitProtocol ==
  /\ scripts = <<>>
  /\ url \in {Some(u) : u \in Urls} \cup {Nil}
  /\ custom_protocol \in {Nil, Some(Foo)}
  /\ rpc_handler = FALSE
  /\ file_drop_handler = FALSE
  /\ Start

NextProtocol ==
  \/ InitChain
  \/ DocumentCreated
  \/ WebResourceRequested

SpecProtocol == InitProtocol /\ [][NextProtocol]_vars

\* The drop of the webview: a page of the registered scheme, with an RPC
\* handler, a resolver and with or without a file-drop handler.
InitDrop ==
  /\ scripts = <<>>
  /\ url = Some([scheme |-> Foo, rest |-> <<"a", "/">>])
  /\ custom_protocol = Some(Foo)
  /\ rpc_handler = TRUE
  /\ file_drop_handler \in BOOLEAN
  /\ Start

NextDrop ==
  \/ InitChain
  \/ DocumentCreated
  \/ WebMessageReceived
  \/ WebResourceRequested
  \/ FileDropped
  \/ drop

SpecDrop == InitDrop /\ [][NextDrop]_vars

\* ---------------------------------------------------------------- claims
Range(q) == { q[i] : i \in 1..Len(q) }

\* C1: an eval call made while the cell is empty returns Ok, hands no script
\* to the engine, and its script is never executed later, also not after the
\* engine became Ready.
C1_EvalBeforeReadyIsDropped ==
  /\ \A n \in dropped : EvalScript(n) \notin Range(executed)
  /\ (evalCount \in dropped => evalResult = "Ok")

\* An eval was dropped, the engine became Ready, and a later eval was executed.
C1_Witness ==
  /\ pc = "Ready"
  /\ 1 \in dropped
  /\ executed = <<EvalScript(2)>>

\* C2: once the cell holds a controller, no step replaces or clears it; the
\* cell is empty or holds the controller the initialization deposited.
C2_CellSetAtMostOnce ==
  /\ [](controller \in {None, "c1"})
  /\ [][controller # None => controller' = controller]_vars

\* The cell is populated and eval and resize have acted on the controller.
C2_Witness ==
  /\ controller = "c1"
  /\ executed # <<>>
  /\ resizeCount > 0
  /\ bounds \in Rects

\* C3: on every document creation the log is the bootstrap script, then the
\* caller's scripts in the order supplied, then the page's script.
C3_InjectionOrder ==
  loads > 0 => log = <<Bootstrap>> \o scripts \o <<PageScript>>

\* A reload of a page with two different caller scripts.
C3_Witness ==
  /\ loads >= 2
  /\ Len(scripts) = 2
  /\ scripts[1] # scripts[2]

\* C9: the cell is populated exactly in Ready, Ready is reached only with
\* every step done, a failure leaves the cell empty, and a failed chain stays
\* failed (it reaches neither Ready nor Uninitialized again).
C9_Inv ==
  /\ controller # None <=> Lifecycle(pc) = "Ready"
  /\ failedAt # None <=> pc = "Failed"
  /\ pc = "Ready" =>
       /\ bounds # None
       /\ Len(registered) = Len(scripts) + 1
       /\ {"web_message_received", "permission_requested"} \subseteq handlers
       /\ (custom_protocol # Nil =>
             {"filter", "web_resource_requested"} \subseteq handlers)
       /\ (url # Nil => navTarget # Nil)

C9_PopulatedIffReady ==
  /\ []C9_Inv
  /\ [][/\ (pc = "Failed" => pc' = "Failed")
        /\ (pc # "Uninitialized" => pc' # "Uninitialized")
        /\ (pc = "Ready" => pc' = "Ready")]_vars

\* The last fallible step failed, and a host call ran afterwards.
C9_Witness ==
  /\ pc = "Failed"
  /\ failedAt = "navigate"
  /\ evalCount > 0

IsRequest(js) == \E k \in Ids, m \in Methods : js = RequestJs(k, m)
IsNotification(js) == \E m \in Methods : js = NotificationJs(m)
IsMalformed(js) == js \in MalformedJs
IsWellFormed(js) == IsRequest(js) \/ IsNotification(js)
IsReply(sc) == sc.kind = "rpc"
HandledRequest(h) == IsRequest(h.js)
HandledNotification(h) == IsNotification(h.js)

Replies == SelectSeq(executed, IsReply)
Requests == SelectSeq(msgs, IsRequest)

\* C4: with an RPC handler, the handler is invoked once per well-formed
\* message, and the replies handed to the engine are, in order, one per
\* request: the i-th reply targets the i-th request's id and carries the
\* handler's value (result) or its error, never both and never neither.
C4_OneReplyPerRequest ==
  rpc_handler =>
    LET handled == SelectSeq(msgs, IsWellFormed)
        reqLog == SelectSeq(handlerLog, HandledRequest)
    IN /\ Len(handlerLog) = Len(handled)
       /\ \A i \in 1..Len(handled) : handlerLog[i].js = handled[i]
       /\ Len(Replies) = Len(Requests)
       /\ \A i \in 1..Len(Replies) :
            /\ Replies[i].id = Requests[i][3]
            /\ (Replies[i].result # Nil) <=> reqLog[i].ok
            /\ (Replies[i].error # Nil) <=> ~reqLog[i].ok

\* Two requests were answered, the first with an error and the second with
\* a value.
C4_Witness ==
  /\ rpc_handler
  /\ Len(msgs) = 2
  /\ Len(executed) = 2
  /\ executed[1].error # Nil
  /\ executed[2].result # Nil
  /\ executed[1].id # executed[2].id

\* C5: with an RPC handler, every notification is given to the handler
\* exactly once, whatever the handler answers, and the scripts handed to the
\* engine are only the replies to requests: none is produced for a
\* notification.
C5_NotificationNoReply ==
  rpc_handler =>
    LET notes == SelectSeq(msgs, IsNotification)
        noteLog == SelectSeq(handlerLog, HandledNotification)
    IN /\ Len(noteLog) = Len(notes)
       /\ \A i \in 1..Len(notes) : noteLog[i].js = notes[i]
       /\ Len(executed) = Len(Requests)
       /\ (Requests = <<>> => executed = <<>>)

\* Two notifications were handled, one failing and one succeeding, and no
\* script was executed.
C5_Witness ==
  /\ rpc_handler
  /\ Len(msgs) = 2
  /\ IsNotification(msgs[1]) /\ IsNotification(msgs[2])
  /\ Len(handlerLog) = 2
  /\ ~handlerLog[1].ok
  /\ handlerLog[2].ok
  /\ executed = <<>>

C7_RoundTrip ==
  (url # Nil /\ custom_protocol # Nil /\ navTarget # Nil /\ lastReq # Nil) =>
    ((Unwrap(custom_protocol) = Unwrap(url).scheme
        /\ Unwrap(lastReq).uri = Unwrap(navTarget)) =>
       Unwrap(lastReq).path = as_str(Unwrap(url)))

C8_Outcome ==
  lastReq # Nil =>
    LET r == Unwrap(lastReq) IN
    /\ r.result \in {"Ok", "PlatformError", "IoError"}
    /\ r.result = "Ok" =>
         /\ r.resolved
         /\ r.response =
              Some([status |-> 200, content_type |-> MimeTypeParse(r.content, r.uri)])
    /\ r.result = "PlatformError" => r.resolved /\ r.response = Nil
    /\ r.result = "IoError" => ~r.resolved /\ r.response = Nil
    /\ ~r.resolved => r.result = "IoError"

C11_RemainingStillAttempted ==
  (pc \in {"Ready", "Failed"} /\ failedAt = "script")
    => Len(scriptCalls) = Len(InjectionOrder(scripts))

\* C11, amended: a failed script registration ends the initialization
\* callback. The failing call is the last registration attempted, every
\* earlier one succeeded, no handler is registered, nothing is navigated to
\* and the cell stays empty.
C11_FailureAbortsRegistration ==
  failedAt = "script"
    => /\ pc = "Failed"
       /\ Len(scriptCalls) = Len(registered) + 1
       /\ \A i \in 1..Len(registered) : registered[i] = scriptCalls[i]
       /\ handlers = {}
       /\ navTarget = Nil
       /\ controller = None

C11_Witness ==
  /\ failedAt = "script"
  /\ Len(registered) >= 1
  /\ Len(scriptCalls) < Len(InjectionOrder(scripts))


\* ---------------------------------------------------------------- C12
\* The positions of the construction in the order the code goes through them.
PcOrder ==
  <<"Uninitialized", "EnvironmentBuilding", "ControllerBuilding", "Settings",
    "Bounds", "Scripts", "MessageHandler", "CustomProtocol", "Permission",
    "Navigating", "Depositing", "Ready", "Failed">>

Rank(p) == CHOOSE i \in 1..Len(PcOrder) : PcOrder[i] = p

Settled == pc \in {"Ready", "Failed"}

\* C12: under fair scheduling of the callbacks every construction that has
\* begun reaches Ready or the terminal error state and stays in it; no step
\* goes back to an earlier position (no retry, no cancellation).
C12_RunsToReadyOrFailed ==
  /\ (pc # "Uninitialized") ~> Settled
  /\ [][Settled => pc' = pc]_vars
  /\ [][Rank(pc') >= Rank(pc)]_vars

C12_Witness ==
  /\ pc = "Ready"
  /\ loads > 0
  /\ evalCount > 0


\* ---------------------------------------------------------------- C13
\* C13: resize changes the bounds only when the cell holds the controller; a
\* resize that finds the cell empty returns Ok and leaves the bounds alone,
\* and no later state has bounds that were set by such a call.
C13_ResizeOnlyWhenPopulated ==
  /\ [](boundsBy \notin droppedResizes)
  /\ [](resizeCount \in droppedResizes => resizeResult = "Ok")
  /\ [][resizeCount' # resizeCount /\ controller = None => bounds' = bounds]_vars
  /\ [][resizeCount' # resizeCount /\ bounds' # bounds => controller # None]_vars

C13_Witness ==
  /\ droppedResizes # {}
  /\ pc = "Ready"
  /\ bounds # None
  /\ loads > 0


\* ---------------------------------------------------------------- C14
\* A step of an eval or resize call.
HostCall == evalCount' # evalCount \/ resizeCount' # resizeCount

\* Everything the initialization callback does has been done.
FullyInitialized ==
  /\ pc = "Ready"
  /\ controller = "c1"
  /\ bounds # None
  /\ registered = InjectionOrder(scripts)
  /\ {"web_message_received", "permission_requested"} \subseteq handlers
  /\ (custom_protocol # Nil => {"filter", "web_resource_requested"} \subseteq handlers)
  /\ (url # Nil => navTarget # Nil)
  /\ (file_drop_handler => file_drop_controller # None)

\* The caller holds the handle and the UI thread is free to run its call.
CanCall == newResult = "Ok" /\ UiIdle

\* C14: however eval and resize calls interleave with the steps of the
\* initialization, each call finds the cell empty (and does nothing) or
\* finds the controller of a fully initialized engine; no call waits for
\* readiness, no call writes the cell, and the cell is written once, by the
\* initialization callback, from empty.
C14_CallsSeeEmptyOrPopulated ==
  /\ [][HostCall => (controller = None \/ FullyInitialized)]_vars
  /\ [][HostCall /\ controller = None
         => bounds' = bounds /\ executed' = executed]_vars
  /\ [][HostCall => controller' = controller /\ pc' = pc]_vars
  /\ [][controller' # controller => controller = None /\ pc = "Depositing"]_vars
  /\ [](CanCall /\ evalCount < MaxEvals => ENABLED eval)
  /\ [](CanCall /\ resizeCount < MaxResizes => ENABLED resize)

C14_Witness ==
  /\ pc = "Ready"
  /\ dropped # {}
  /\ evalCount \notin dropped
  /\ executed # <<>>
  /\ resizeCount > 0


\* ---------------------------------------------------------------- C15
\* C15: a message posted by embedded script is received, and a reply script
\* is dispatched, only while the cell holds the controller; an initialization
\* that failed, also after the message handler was registered, never receives
\* a message.
C15_MessageImpliesPopulated ==
  /\ [][msgs' # msgs => controller = "c1" /\ pc = "Ready"]_vars
  /\ [][msgs' # msgs /\ executed' # executed => controller' = "c1"]_vars
  /\ [](msgs # <<>> => controller = "c1")
  /\ [](pc = "Failed" => msgs = <<>> /\ loads = 0)

C15_Witness ==
  /\ controller = "c1"
  /\ Len(msgs) = MaxMsgs
  /\ \E i \in 1..Len(executed) : IsReply(executed[i])


\* ---------------------------------------------------------------- C16
\* The initialization callback has not ended yet.
ChainRunning == pc \notin {"Uninitialized", "Ready", "Failed", "Dropped"}

\* C16: once the webview was dropped, no RPC handler, resolver or file-drop
\* handler of it is invoked in any later step; as soon as the initialization
\* callback is over both cells are gone; the instance is not Ready in any
\* later state and is never owned again.
C16_DroppedIsTornDown ==
  /\ [][~owner => UNCHANGED <<msgs, handlerLog, lastReq, fileDrops, executed>>]_vars
  /\ [](~owner /\ ~ChainRunning
          => controller = None /\ file_drop_controller = None)
  /\ [](~owner => pc # "Ready")
  /\ [][~owner => ~owner']_vars
  /\ [][pc = "Dropped" => pc' = "Dropped"]_vars

C16_Witness ==
  /\ pc = "Dropped"
  /\ handlerLog # <<>>
  /\ lastReq # Nil
  /\ fileDrops > 0


\* ---------------------------------------------------------------- C17
IsPrefix(a, b) == Len(a) <= Len(b) /\ \A i \in 1..Len(a) : a[i] = b[i]

\* Navigate was called or the controller was deposited.
NavigatedOrDeposited == navTarget # Nil \/ controller # None

\* C17: add_script_to_execute_on_document_created is called once with the
\* bootstrap script and then once with each caller script, in list order;
\* when navigate is called or the controller is deposited, all of these
\* calls, the message handler and (with a custom protocol) the interception
\* filter are in place, and no registration happens afterwards.
C17_RegistrationsBeforeNavigate ==
  /\ [](IsPrefix(scriptCalls, <<Bootstrap>> \o scripts))
  /\ [](pc \in {"Navigating", "Depositing", "Ready"} \/ NavigatedOrDeposited
          => /\ scriptCalls = <<Bootstrap>> \o scripts
             /\ registered = scriptCalls
             /\ "web_message_received" \in handlers
             /\ (custom_protocol # Nil => "filter" \in handlers))
  /\ [][scriptCalls' # scriptCalls \/ handlers' # handlers
         => ~NavigatedOrDeposited /\ ~NavigatedOrDeposited']_vars

C17_Witness ==
  /\ pc = "Ready"
  /\ Len(scripts) = MaxScripts
  /\ navTarget # Nil
  /\ custom_protocol # Nil
  /\ loads > 0


\* ---------------------------------------------------------------- C18
\* A custom protocol is registered and the URL has its scheme.
SchemeMatches ==
  /\ custom_protocol # Nil
  /\ url # Nil
  /\ Unwrap(url).scheme = Unwrap(custom_protocol)

\* C18: the string navigated to has the synthetic form
\* file://custom-protocol-<name>.. exactly when a custom protocol is
\* registered and the URL has its scheme, and is the caller's URL unchanged
\* otherwise; without a URL navigate is not called, the step cannot fail and
\* the callback goes on to deposit the controller and become Ready.
C18_RewrittenIffSchemeMatches ==
  /\ [](navTarget # Nil
          => /\ url # Nil
             /\ IF SchemeMatches
                THEN /\ StartsWith(Unwrap(navTarget),
                                   SyntheticPrefix(Unwrap(custom_protocol)))
                     /\ Unwrap(navTarget) # as_str(Unwrap(url))
                ELSE Unwrap(navTarget) = as_str(Unwrap(url)))
  /\ [](url = Nil => navTarget = Nil /\ failedAt # "navigate")
  /\ [][url = Nil /\ pc = "Navigating" /\ pc' # pc => pc' = "Depositing"]_vars
  /\ [][pc = "Depositing" /\ pc' # pc => pc' = "Ready" /\ controller' = "c1"]_vars

C18_Witness ==
  /\ pc = "Ready"
  /\ SchemeMatches
  /\ navTarget # Nil
  /\ StartsWith(Unwrap(navTarget), SyntheticPrefix(Foo))
  /\ lastReq # Nil


====
